---- MODULE Spec2Model ----
(***************************************************************************)
(* Model of the client-side authentication layer:                          *)
(*   - ApiClient.request and TokenManager     (src/src/lib/api-client.ts)  *)
(*   - the VerifyResetPassword view           (src/unnamed/part_000)       *)
(* JavaScript values are encoded as tagged records so that values of       *)
(* different JavaScript types can be compared.                             *)
(***************************************************************************)
EXTENDS Integers, Sequences, FiniteSets, TLC

(***************************************************************************)
(* Bounds of the model.                                                    *)
(***************************************************************************)
\* number of refreshAccessToken() calls that may overlap
MaxRefresh == 2
\* number of verifyResetPassword() submissions in one run
MaxSubs == 2

(***************************************************************************)
(* JavaScript values.                                                      *)
(***************************************************************************)
Undef == [t |-> "undefined"]
JNull == [t |-> "null"]
JStr(s) == [t |-> "string", s |-> s]
JNum(n) == [t |-> "number", n |-> n]
JObj(f) == [t |-> "object", f |-> f]
EmptyObj == JObj(<<>>)

\* ToBoolean(v), as used by !v, v || w and if (v)
Truthy(v) ==
  CASE v.t = "undefined" -> FALSE
    [] v.t = "null" -> FALSE
    [] v.t = "string" -> v.s # ""
    [] v.t = "number" -> v.n # 0
    [] OTHER -> TRUE

\* a || b
Or(a, b) == IF Truthy(a) THEN a ELSE b

\* v.k throws a TypeError exactly when v is null or undefined
PropThrows(v) == v.t \in {"null", "undefined"}

\* v.k for a v on which property access does not throw
Get(v, k) == IF v.t = "object" /\ k \in DOMAIN v.f THEN v.f[k] ELSE Undef

\* v?.k
OptGet(v, k) == IF PropThrows(v) THEN Undef ELSE Get(v, k)

\* typeof v
TypeOf(v) == IF v.t = "null" THEN "object" ELSE v.t

\* String(v), the coercion localStorage.setItem applies to its value
ToStr(v) ==
  CASE v.t = "string" -> v.s
    [] v.t = "undefined" -> "undefined"
    [] v.t = "null" -> "null"
    [] v.t = "number" -> ToString(v.n)
    [] OTHER -> "[object Object]"

\* JSON.parse(JSON.stringify(o)) for an object o of strings: properties whose
\* value is undefined are dropped
Stringify(o) ==
  JObj([k \in {j \in DOMAIN o.f : o.f[j].t # "undefined"} |-> o.f[k]])

(***************************************************************************)
(* ApiClient.request                                                       *)
(***************************************************************************)
NoHeaders == <<>>

\* the request configuration built from the caller's options
RequestConfig(accessToken, options) ==
  LET defaults == ("Content-Type" :> "application/json")
      merged == IF "headers" \in DOMAIN options
                  THEN options.headers @@ defaults
                  ELSE defaults
      \* ...options comes last in the literal: its own headers key wins
      spread == IF "headers" \in DOMAIN options THEN options.headers ELSE merged
      withAuth == IF Truthy(accessToken)
                    THEN ("Authorization" :> ("Bearer " \o ToStr(accessToken))) @@ spread
                    ELSE spread
  IN [method |-> options.method, body |-> options.body, headers |-> withAuth]

\* what fetch() produced: a network failure, or a response with a status and a
\* body that decodes to a value or does not decode ("invalid")
NetworkFailure == [net |-> "error", status |-> 0, statusText |-> "", body |-> Undef]
HttpResponse(status, statusText, body) ==
  [net |-> "ok", status |-> status, statusText |-> statusText, body |-> body]
Undecodable == [t |-> "invalid"]

ResponseOk(resp) == resp.status >= 200 /\ resp.status <= 299

\* the Error objects request() throws
ThrownError(message) ==
  [message |-> message, hasResponse |-> FALSE, status |-> 0, data |-> Undef]
HttpError(message, status, data) ==
  [message |-> message, hasResponse |-> TRUE, status |-> status, data |-> data]
NoError == [message |-> "", hasResponse |-> FALSE, status |-> -1, data |-> Undef]

Resolved(v) == [ok |-> TRUE, value |-> v, error |-> NoError]
Rejected(e) == [ok |-> FALSE, value |-> Undef, error |-> e]

\* no request sent, and a call that has not settled
NoRequest == [method |-> "", body |-> Undef, headers |-> NoHeaders]
Pending == [ok |-> FALSE, value |-> Undef, error |-> NoError]

\* a request() call before it is made
NoCall ==
  [pc |-> "none", options |-> [method |-> "", body |-> Undef],
   config |-> NoRequest, resp |-> NetworkFailure, outcome |-> Pending]

StatusPhrase(resp) ==
  "HTTP " \o ToString(resp.status) \o ": " \o resp.statusText

\* the message extracted from the decoded error body
ErrorMessage(errorData, resp) ==
  LET fallback == JStr(StatusPhrase(resp))
      err == Get(errorData, "error")
      outer == Or(Or(Or(Get(errorData, "message"), OptGet(err, "message")),
                     IF TypeOf(err) = "string" THEN err ELSE JNull),
                  fallback)
      data == Get(errorData, "data")
      inner == IF Truthy(data) /\ TypeOf(data) = "object"
                 THEN Or(Or(Get(data, "message"),
                            OptGet(Get(data, "error"), "message")),
                         outer)
                 ELSE outer
  IN IF TypeOf(inner) # "string" THEN fallback.s ELSE inner.s

\* the outcome of request() for what fetch() produced
Request(resp) ==
  IF resp.net = "error" THEN Rejected(ThrownError("Failed to fetch"))
  ELSE IF ~ResponseOk(resp)
    THEN LET errorData == IF resp.body = Undecodable THEN EmptyObj ELSE resp.body
         IN IF PropThrows(errorData)
              THEN Rejected(ThrownError("Cannot read properties of null"))
              ELSE Rejected(HttpError(ErrorMessage(errorData, resp),
                                      resp.status, errorData))
  ELSE IF resp.body = Undecodable
    THEN Rejected(ThrownError("Unexpected end of JSON input"))
  ELSE IF PropThrows(resp.body)
    THEN Rejected(ThrownError("Cannot read properties of null"))
  ELSE IF Truthy(Get(resp.body, "data"))
    THEN Resolved(Get(resp.body, "data"))
  ELSE Resolved(resp.body)

\* ApiClient.refreshToken: the options it passes to request()
RefreshTokenOptions(refreshToken) ==
  [method |-> "POST",
   body |-> Stringify(JObj("refresh_token" :> refreshToken))]

(***************************************************************************)
(* State.                                                                  *)
(***************************************************************************)
VARIABLES
  hasWindow,     \* typeof window !== "undefined": a storage-capable context
  localStorage,  \* the two token slots; JNull is an absent item
  accessToken,   \* ApiClient.accessToken
  rf,            \* the refreshAccessToken() calls: position, request, outcome
  sessionStorage,\* the two fields of the reset flow; JNull is an absent item
  route,         \* the path of the page the router shows
  pendingNav,    \* the route change the last router.push asked for
  view,          \* the state of the mounted VerifyResetPassword component
  guardPushes,   \* what the entry effect of the mounted instance pushed
  sub,           \* the verifyResetPassword() submissions
  call           \* one request() call: what it was given, sent and produced

tokenVars == <<hasWindow, localStorage, accessToken, rf>>
viewVars == <<sessionStorage, route, pendingNav, view, guardPushes, sub>>
vars == <<hasWindow, localStorage, accessToken, rf,
          sessionStorage, route, pendingNav, view, guardPushes, sub, call>>

ACCESS_TOKEN_KEY == "access_token"
REFRESH_TOKEN_KEY == "refresh_token"

\* Storage.getItem / setItem / removeItem
GetItem(storage, key) == storage[key]
SetItem(storage, key, value) == [storage EXCEPT ![key] = JStr(ToStr(value))]
RemoveItem(storage, key) == [storage EXCEPT ![key] = JNull]

(***************************************************************************)
(* The VerifyResetPassword view: values                                    *)
(***************************************************************************)
EMAIL_KEY == "reset_password_email"
OTP_KEY == "verified_otp"
MinPasswordLength == 6

\* an href handed to router.push: absolute ("/a/b") or relative ("a/b")
Href(abs, segs) == [abs |-> abs, segs |-> segs]
HrefResetPassword == Href(TRUE, <<"auth", "reset-password">>)
HrefVerifyOtp == Href(TRUE, <<"auth", "verify-otp-reset">>)
HrefHome == Href(TRUE, <<>>)
HrefLoginRelative == Href(FALSE, <<"auth", "login">>)
HrefLogin == Href(TRUE, <<"auth", "login">>)

\* the path an href names when pushed from the page at path base: a relative
\* href replaces the last segment of base
Resolve(base, href) ==
  IF href.abs \/ Len(base) = 0
    THEN href.segs
    ELSE SubSeq(base, 1, Len(base) - 1) \o href.segs

\* the page of this view, a sibling of the pages its guard redirects to
ViewRoute == <<"auth", "verify-reset-password">>

NoPending == [pending |-> FALSE, to |-> <<>>]
PendingTo(path) == [pending |-> TRUE, to |-> path]

\* the route change pending after a handler pushed hrefs, in order, from base
AfterPushes(pending, base, hrefs) ==
  IF hrefs = <<>> THEN pending ELSE PendingTo(Resolve(base, hrefs[Len(hrefs)]))

\* the toasts
Toast(title, description, variant) ==
  [title |-> title, description |-> description, variant |-> variant]
ToastEmailMissing ==
  Toast("Email Tidak Ditemukan", "Silakan mulai ulang proses reset password",
        "destructive")
ToastPasswordRequired ==
  Toast("Password Diperlukan",
        "Silakan masukkan password baru dan konfirmasi password", "destructive")
ToastMismatch ==
  Toast("Password Tidak Cocok",
        "Password baru dan konfirmasi password tidak sama", "destructive")
ToastTooShort ==
  Toast("Password Terlalu Pendek", "Password minimal 6 karakter", "destructive")
ToastOtpMissing ==
  Toast("OTP Belum Diverifikasi", "Silakan verifikasi OTP terlebih dahulu",
        "destructive")
ToastSuccess ==
  Toast("Berhasil!", "Password berhasil direset! Mengalihkan ke dashboard...",
        "default")
ToastLoginNotice ==
  Toast("Reset Berhasil",
        "Password berhasil direset. Silakan login untuk melanjutkan.", "default")
ToastFailed(message) == Toast("Verifikasi Gagal", message, "destructive")

\* the component's state after its first render, and with no instance mounted
InitialView ==
  [phase |-> "initial", email |-> "", newPassword |-> "", confirmPassword |-> "",
   loading |-> FALSE, isVerifying |-> FALSE]
Unmounted == [InitialView EXCEPT !.phase = "unmounted"]

\* the form is rendered only once email is set; before, a placeholder
FormRendered(v) == v.phase # "unmounted" /\ v.email # ""

\* a verifyResetPassword() call: not started, awaiting the backend, awaiting
\* signIn, or returned; stale once the instance that started it is unmounted
NoSignIn == [accessToken |-> Undef, refreshToken |-> Undef]
IdleSub ==
  [pc |-> "idle", request |-> NoRequest, outcome |-> Pending,
   signInArgs |-> NoSignIn, signIn |-> "none",
   toasts |-> <<>>, pushes |-> <<>>, stale |-> FALSE]

\* ApiClient.verifyResetPassword: the options it passes to request()
VerifyResetPasswordOptions(data) ==
  [method |-> "POST", body |-> Stringify(data)]

\* the values of the model's inputs
Emails == {"u@x.io"}
Otps == {"123456"}
Passwords == {"", "abc12", "abcdef"}

\* what the confirm-reset endpoint may answer
ResetResponses ==
  { NetworkFailure,
    HttpResponse(400, "Bad Request",
                 JObj("error" :> JObj("message" :> JStr("OTP tidak valid")))),
    HttpResponse(200, "OK",
                 JObj("data" :> JObj(("message" :> JStr("ok"))
                                     @@ ("access_token" :> JStr("a1"))
                                     @@ ("refresh_token" :> JStr("r1"))))) }

\* what signIn() may do: resolve with ok, resolve without, or reject
SignInOutcomes == {"ok", "failed", "throws"}

ViewInit ==
  /\ sessionStorage = [k \in {EMAIL_KEY, OTP_KEY} |-> JNull]
  /\ route = <<"auth", "reset-password">>
  /\ pendingNav = NoPending
  /\ view = Unmounted
  /\ guardPushes = <<>>
  /\ sub = [i \in 1..MaxSubs |-> IdleSub]

(***************************************************************************)
(* TokenManager                                                            *)
(***************************************************************************)
setTokensAccessOnly(ls, window, access, refresh) ==
  IF window THEN SetItem(ls, ACCESS_TOKEN_KEY, access) ELSE ls

setTokensSwapped(ls, window, access, refresh) ==
  IF window
    THEN SetItem(SetItem(ls, ACCESS_TOKEN_KEY, refresh), REFRESH_TOKEN_KEY, access)
    ELSE ls

setTokens(ls, window, access, refresh) ==
  IF window
    THEN SetItem(SetItem(ls, ACCESS_TOKEN_KEY, access), REFRESH_TOKEN_KEY, refresh)
    ELSE ls

getAccessToken(ls, window) ==
  IF window THEN GetItem(ls, ACCESS_TOKEN_KEY) ELSE JNull

getRefreshToken(ls, window) ==
  IF window THEN GetItem(ls, REFRESH_TOKEN_KEY) ELSE JNull

clearTokensKeepAccess(ls, window) ==
  IF window THEN RemoveItem(ls, REFRESH_TOKEN_KEY) ELSE ls

clearTokens(ls, window) ==
  IF window
    THEN RemoveItem(RemoveItem(ls, ACCESS_TOKEN_KEY), REFRESH_TOKEN_KEY)
    ELSE ls

\* a refreshAccessToken() call: not running, awaiting apiClient.refreshToken
\* (with the request it sent), or returned (with what the await produced and
\* the value returned)
IdleRefresh ==
  [pc |-> "idle", request |-> NoRequest, outcome |-> Pending, result |-> JNull]

\* the pairs callers hand to setTokens: a login's pair, and one whose refresh
\* token is the empty string
CallerPairs == {<<JStr("t0"), JStr("u0")>>, <<JStr("t0"), JStr("")>>}

\* what the refresh endpoint may answer
TokenPair(a, r) == JObj(("access_token" :> JStr(a)) @@ ("refresh_token" :> JStr(r)))
RefreshResponses ==
  { NetworkFailure,
    HttpResponse(401, "Unauthorized",
                 JObj("error" :> JObj("message" :> JStr("invalid refresh token")))),
    HttpResponse(200, "OK", Undecodable),
    HttpResponse(200, "OK", TokenPair("a1", "r1")),
    HttpResponse(200, "OK", JObj("data" :> TokenPair("a2", "r2"))),
    HttpResponse(200, "OK", JObj("access_token" :> JStr("a3"))) }

InitToken ==
  /\ hasWindow \in BOOLEAN
  /\ localStorage = [k \in {ACCESS_TOKEN_KEY, REFRESH_TOKEN_KEY} |-> JNull]
  /\ accessToken = JNull
  /\ rf = [i \in 1..MaxRefresh |-> IdleRefresh]
  /\ ViewInit
  /\ call = NoCall

\* TokenManager.setTokens(access, refresh)
CallSetTokens ==
  \E pair \in CallerPairs :
    /\ localStorage' = setTokens(localStorage, hasWindow, pair[1], pair[2])
    /\ UNCHANGED <<hasWindow, accessToken, rf, sessionStorage, route, pendingNav, view, guardPushes, sub, call>>

CallClearTokensAndClient ==
  /\ localStorage' = clearTokens(localStorage, hasWindow)
  /\ accessToken' = JNull
  /\ UNCHANGED <<hasWindow, rf, sessionStorage, route, pendingNav, view, guardPushes, sub, call>>

\* TokenManager.clearTokens()
CallClearTokens ==
  /\ localStorage' = clearTokens(localStorage, hasWindow)
  /\ UNCHANGED <<hasWindow, accessToken, rf, sessionStorage, route, pendingNav, view, guardPushes, sub, call>>

\* apiClient.setAccessToken(token)
SetAccessToken ==
  \E t \in {JNull, JStr("t0")} :
    /\ accessToken' = t
    /\ UNCHANGED <<hasWindow, localStorage, rf, sessionStorage, route, pendingNav, view, guardPushes, sub, call>>

RefreshStartNoEarlyReturn(i) ==
  /\ rf[i].pc # "await"
  /\ rf' = [rf EXCEPT ![i] =
              [IdleRefresh EXCEPT
                 !.pc = "await",
                 !.request = RequestConfig(accessToken,
                                RefreshTokenOptions(
                                  getRefreshToken(localStorage, hasWindow)))]]
  /\ UNCHANGED <<hasWindow, localStorage, accessToken, sessionStorage, route, pendingNav, view, guardPushes, sub, call>>

\* refreshAccessToken() up to its await: the early return, or the request
RefreshStart(i) ==
  /\ rf[i].pc # "await"
  /\ LET refreshToken == getRefreshToken(localStorage, hasWindow)
     IN IF ~Truthy(refreshToken)
          THEN rf' = [rf EXCEPT ![i] = [IdleRefresh EXCEPT !.pc = "done"]]
          ELSE rf' = [rf EXCEPT ![i] =
                       [IdleRefresh EXCEPT
                          !.pc = "await",
                          !.request = RequestConfig(accessToken,
                                         RefreshTokenOptions(refreshToken))]]
  /\ UNCHANGED <<hasWindow, localStorage, accessToken, sessionStorage, route, pendingNav, view, guardPushes, sub, call>>

\* refreshAccessToken() from the settling of apiClient.refreshToken to its return
RefreshSettle(i) ==
  /\ rf[i].pc = "await"
  /\ \E resp \in RefreshResponses :
       LET outcome == Request(resp)
           response == outcome.value
       IN IF outcome.ok /\ ~PropThrows(response)
            THEN /\ localStorage' = setTokens(localStorage, hasWindow,
                                              Get(response, "access_token"),
                                              Get(response, "refresh_token"))
                 /\ rf' = [rf EXCEPT ![i] =
                              [IdleRefresh EXCEPT
                                 !.pc = "done", !.outcome = outcome,
                                 !.result = Get(response, "access_token")]]
            ELSE /\ localStorage' = clearTokens(localStorage, hasWindow)
                 /\ rf' = [rf EXCEPT ![i] =
                              [IdleRefresh EXCEPT
                                 !.pc = "done", !.outcome = outcome]]
  /\ UNCHANGED <<hasWindow, accessToken, sessionStorage, route, pendingNav, view, guardPushes, sub, call>>

NextToken ==
  \/ CallSetTokens
  \/ CallClearTokens
  \/ SetAccessToken
  \/ \E i \in 1..MaxRefresh : RefreshStart(i)
  \/ \E i \in 1..MaxRefresh : RefreshSettle(i)

SpecToken == InitToken /\ [][NextToken]_vars

(***************************************************************************)
(* The VerifyResetPassword view: handlers                                  *)
(***************************************************************************)
\* the browser runs in a storage-capable context; nothing is stored yet
InitReset ==
  /\ hasWindow = TRUE
  /\ localStorage = [k \in {ACCESS_TOKEN_KEY, REFRESH_TOKEN_KEY} |-> JNull]
  /\ accessToken = JNull
  /\ rf = [i \in 1..MaxRefresh |-> IdleRefresh]
  /\ ViewInit
  /\ call = NoCall

\* the hrefs the entry effect pushes, in order
EntryPushes(ss) ==
  (IF Truthy(GetItem(ss, EMAIL_KEY)) THEN <<>> ELSE <<HrefResetPassword>>)
    \o (IF ~Truthy(GetItem(ss, OTP_KEY)) THEN <<HrefVerifyOtp>> ELSE <<>>)

\* useEffect(() => {...}, [router]) after the first render
EntryEffect ==
  /\ view.phase = "initial"
  /\ LET storedEmail == GetItem(sessionStorage, EMAIL_KEY)
         hrefs == EntryPushes(sessionStorage)
     IN /\ view' = [view EXCEPT !.phase = "ready",
                                !.email = IF Truthy(storedEmail)
                                            THEN storedEmail.s ELSE @]
        /\ guardPushes' = [k \in 1..Len(hrefs) |-> Resolve(route, hrefs[k])]
        /\ pendingNav' = AfterPushes(pendingNav, route, hrefs)
  /\ UNCHANGED <<sessionStorage, route, sub, hasWindow, localStorage,
                 accessToken, rf, call>>

\* onChange of the two password inputs
SetNewPassword ==
  /\ FormRendered(view)
  /\ \E p \in Passwords \ {view.newPassword} :
       view' = [view EXCEPT !.newPassword = p]
  /\ UNCHANGED <<sessionStorage, route, pendingNav, guardPushes, sub,
                 hasWindow, localStorage, accessToken, rf, call>>

SetConfirmPassword ==
  /\ FormRendered(view)
  /\ \E p \in Passwords \ {view.confirmPassword} :
       view' = [view EXCEPT !.confirmPassword = p]
  /\ UNCHANGED <<sessionStorage, route, pendingNav, guardPushes, sub,
                 hasWindow, localStorage, accessToken, rf, call>>

LocalCheckLengthFirst(email, newPassword, confirmPassword, verifiedOtp) ==
  IF email = "" THEN "email"
  ELSE IF newPassword = "" \/ confirmPassword = "" THEN "required"
  ELSE IF Len(newPassword) < MinPasswordLength THEN "short"
  ELSE IF newPassword # confirmPassword THEN "mismatch"
  ELSE IF ~Truthy(verifiedOtp) THEN "otp"
  ELSE "pass"

LocalCheckOffByOne(email, newPassword, confirmPassword, verifiedOtp) ==
  IF email = "" THEN "email"
  ELSE IF newPassword = "" \/ confirmPassword = "" THEN "required"
  ELSE IF newPassword # confirmPassword THEN "mismatch"
  ELSE IF Len(newPassword) <= MinPasswordLength THEN "short"
  ELSE IF ~Truthy(verifiedOtp) THEN "otp"
  ELSE "pass"

\* the first of the five local checks that fails, or "pass"
LocalCheck(email, newPassword, confirmPassword, verifiedOtp) ==
  IF email = "" THEN "email"
  ELSE IF newPassword = "" \/ confirmPassword = "" THEN "required"
  ELSE IF newPassword # confirmPassword THEN "mismatch"
  ELSE IF Len(newPassword) < MinPasswordLength THEN "short"
  ELSE IF ~Truthy(verifiedOtp) THEN "otp"
  ELSE "pass"

\* the toast and the pushes of a submission that a local check stops
RejectToast(check) ==
  CASE check = "email" -> ToastEmailMissing
    [] check = "required" -> ToastPasswordRequired
    [] check = "mismatch" -> ToastMismatch
    [] check = "short" -> ToastTooShort
    [] check = "otp" -> ToastOtpMissing
RejectPushes(check) == IF check = "otp" THEN <<HrefVerifyOtp>> ELSE <<>>

\* setLoading / setIsVerifying from a handler: no effect on an instance that
\* is no longer mounted
SetFlags(v, stale, flag) ==
  IF stale \/ v.phase = "unmounted"
    THEN v
    ELSE [v EXCEPT !.loading = flag, !.isVerifying = flag]

SubmitEagerInvalidate(i) ==
  /\ view.phase # "unmounted"
  /\ sub[i].pc = "idle"
  /\ \A j \in 1..(i - 1) : sub[j].pc # "idle"
  /\ LET verifiedOtp == GetItem(sessionStorage, OTP_KEY)
         check == LocalCheck(view.email, view.newPassword,
                             view.confirmPassword, verifiedOtp)
     IN IF check # "pass"
          THEN /\ sub' = [sub EXCEPT ![i] =
                           [IdleSub EXCEPT
                              !.pc = "done",
                              !.toasts = <<RejectToast(check)>>,
                              !.pushes = [k \in 1..Len(RejectPushes(check)) |->
                                            Resolve(route, RejectPushes(check)[k])]]]
               /\ pendingNav' = AfterPushes(pendingNav, route, RejectPushes(check))
               /\ view' = view
               /\ sessionStorage' = sessionStorage
          ELSE /\ sub' = [sub EXCEPT ![i] =
                           [IdleSub EXCEPT
                              !.pc = "awaitReset",
                              !.request =
                                RequestConfig(accessToken,
                                  VerifyResetPasswordOptions(
                                    JObj(("email" :> JStr(view.email))
                                         @@ ("otp_code" :> verifiedOtp)
                                         @@ ("new_password" :> JStr(view.newPassword)))))]]
               /\ pendingNav' = pendingNav
               /\ view' = SetFlags(view, FALSE, TRUE)
               /\ sessionStorage' = RemoveItem(sessionStorage, OTP_KEY)
  /\ UNCHANGED <<route, guardPushes, hasWindow, localStorage,
                 accessToken, rf, call>>

SubmitSingleFlight(i) ==
  /\ view.phase # "unmounted"
  /\ sub[i].pc = "idle"
  /\ \A j \in 1..(i - 1) : sub[j].pc # "idle"
  /\ LET verifiedOtp == GetItem(sessionStorage, OTP_KEY)
         check == LocalCheck(view.email, view.newPassword,
                             view.confirmPassword, verifiedOtp)
         busy == \E j \in 1..MaxSubs : sub[j].pc = "awaitReset"
     IN IF busy
          THEN /\ sub' = [sub EXCEPT ![i] = [IdleSub EXCEPT !.pc = "done"]]
               /\ pendingNav' = pendingNav
               /\ view' = view
          ELSE IF check # "pass"
          THEN /\ sub' = [sub EXCEPT ![i] =
                           [IdleSub EXCEPT
                              !.pc = "done",
                              !.toasts = <<RejectToast(check)>>,
                              !.pushes = [k \in 1..Len(RejectPushes(check)) |->
                                            Resolve(route, RejectPushes(check)[k])]]]
               /\ pendingNav' = AfterPushes(pendingNav, route, RejectPushes(check))
               /\ view' = view
          ELSE /\ sub' = [sub EXCEPT ![i] =
                           [IdleSub EXCEPT
                              !.pc = "awaitReset",
                              !.request =
                                RequestConfig(accessToken,
                                  VerifyResetPasswordOptions(
                                    JObj(("email" :> JStr(view.email))
                                         @@ ("otp_code" :> verifiedOtp)
                                         @@ ("new_password" :> JStr(view.newPassword)))))]]
               /\ pendingNav' = pendingNav
               /\ view' = SetFlags(view, FALSE, TRUE)
  /\ UNCHANGED <<sessionStorage, route, guardPushes, hasWindow, localStorage,
                 accessToken, rf, call>>

\* verifyResetPassword() up to its first await: the local checks, then the
\* request.  The handler may be called whenever an instance is mounted: the
\* form's disabled and required attributes are not part of it, so every one
\* of its branches can run and two calls can overlap.
Submit(i) ==
  /\ view.phase # "unmounted"
  /\ sub[i].pc = "idle"
  /\ \A j \in 1..(i - 1) : sub[j].pc # "idle"
  /\ LET verifiedOtp == GetItem(sessionStorage, OTP_KEY)
         check == LocalCheck(view.email, view.newPassword,
                             view.confirmPassword, verifiedOtp)
     IN IF check # "pass"
          THEN /\ sub' = [sub EXCEPT ![i] =
                           [IdleSub EXCEPT
                              !.pc = "done",
                              !.toasts = <<RejectToast(check)>>,
                              !.pushes = [k \in 1..Len(RejectPushes(check)) |->
                                            Resolve(route, RejectPushes(check)[k])]]]
               /\ pendingNav' = AfterPushes(pendingNav, route, RejectPushes(check))
               /\ view' = view
          ELSE /\ sub' = [sub EXCEPT ![i] =
                           [IdleSub EXCEPT
                              !.pc = "awaitReset",
                              !.request =
                                RequestConfig(accessToken,
                                  VerifyResetPasswordOptions(
                                    JObj(("email" :> JStr(view.email))
                                         @@ ("otp_code" :> verifiedOtp)
                                         @@ ("new_password" :> JStr(view.newPassword)))))]]
               /\ pendingNav' = pendingNav
               /\ view' = SetFlags(view, FALSE, TRUE)
  /\ UNCHANGED <<sessionStorage, route, guardPushes, hasWindow, localStorage,
                 accessToken, rf, call>>

\* the storage writes of the success branch and of the catch branch
ClearFlowStateOtpOnly(ss) == RemoveItem(ss, OTP_KEY)

ClearFlowState(ss) == RemoveItem(RemoveItem(ss, EMAIL_KEY), OTP_KEY)

InvalidateOtpNoop(ss) == ss

InvalidateOtpAndEmail(ss) == RemoveItem(RemoveItem(ss, EMAIL_KEY), OTP_KEY)

InvalidateOtp(ss) == RemoveItem(ss, OTP_KEY)

\* verifyResetPassword() from the settling of the backend call to its next
\* await (signIn) or, on failure, to its return
ResetSettle(i) ==
  /\ sub[i].pc = "awaitReset"
  /\ \E resp \in ResetResponses :
       LET outcome == Request(resp)
           response == outcome.value
       IN IF outcome.ok
            THEN /\ sessionStorage' = ClearFlowState(sessionStorage)
                 /\ sub' = [sub EXCEPT
                      ![i].pc = "awaitSignIn",
                      ![i].outcome = outcome,
                      ![i].toasts = Append(@, ToastSuccess),
                      ![i].signInArgs =
                        [accessToken |-> Get(response, "access_token"),
                         refreshToken |-> Get(response, "refresh_token")]]
                 /\ view' = view
            ELSE /\ sessionStorage' = InvalidateOtp(sessionStorage)
                 /\ sub' = [sub EXCEPT
                      ![i].pc = "done",
                      ![i].outcome = outcome,
                      ![i].toasts = Append(@, ToastFailed(outcome.error.message))]
                 /\ view' = SetFlags(view, sub[i].stale, FALSE)
  /\ UNCHANGED <<route, pendingNav, guardPushes, hasWindow, localStorage,
                 accessToken, rf, call>>

\* the toasts and the href of each outcome of signIn()
SignInToasts(r) == IF r = "ok" THEN <<>> ELSE <<ToastLoginNotice>>
SignInHref(r) ==
  CASE r = "ok" -> HrefHome
    [] r = "failed" -> HrefLoginRelative
    [] r = "throws" -> HrefLogin

\* verifyResetPassword() from the settling of signIn() to its return
SignInSettle(i) ==
  /\ sub[i].pc = "awaitSignIn"
  /\ \E r \in SignInOutcomes :
       /\ sub' = [sub EXCEPT
            ![i].pc = "done",
            ![i].signIn = r,
            ![i].toasts = @ \o SignInToasts(r),
            ![i].pushes = Append(@, Resolve(route, SignInHref(r)))]
       /\ pendingNav' = AfterPushes(pendingNav, route, <<SignInHref(r)>>)
  /\ view' = SetFlags(view, sub[i].stale, FALSE)
  /\ UNCHANGED <<sessionStorage, route, guardPushes, hasWindow, localStorage,
                 accessToken, rf, call>>

\* the back button of the form
BackToOtp ==
  /\ FormRendered(view)
  /\ pendingNav' = AfterPushes(pendingNav, route, <<HrefVerifyOtp>>)
  /\ pendingNav' # pendingNav
  /\ UNCHANGED <<sessionStorage, route, view, guardPushes, sub, hasWindow,
                 localStorage, accessToken, rf, call>>

\* the submissions once the instance that started them is unmounted
Orphaned(subs) ==
  [i \in DOMAIN subs |->
     IF subs[i].pc \in {"awaitReset", "awaitSignIn"}
       THEN [subs[i] EXCEPT !.stale = TRUE]
       ELSE subs[i]]

\* the router completes the pending route change: the component is unmounted
\* when its page is left and mounted afresh when its page is entered
RouteChange ==
  /\ pendingNav.pending
  /\ route' = pendingNav.to
  /\ pendingNav' = NoPending
  /\ IF pendingNav.to = route
       THEN view' = view /\ sub' = sub /\ guardPushes' = guardPushes
       ELSE IF pendingNav.to = ViewRoute
         THEN view' = InitialView /\ sub' = sub /\ guardPushes' = <<>>
         ELSE IF route = ViewRoute
           THEN view' = Unmounted /\ sub' = Orphaned(sub) /\ guardPushes' = <<>>
           ELSE view' = view /\ sub' = sub /\ guardPushes' = guardPushes
  /\ UNCHANGED <<sessionStorage, hasWindow, localStorage, accessToken, rf, call>>

\* the user opens the page of the view through the browser's history
Visit ==
  /\ route # ViewRoute
  /\ route' = ViewRoute
  /\ pendingNav' = NoPending
  /\ view' = InitialView
  /\ guardPushes' = <<>>
  /\ UNCHANGED <<sessionStorage, sub, hasWindow, localStorage, accessToken, rf, call>>

\* step 1 of the flow succeeds: email is written and the OTP step follows
RequestResetDone ==
  /\ route = HrefResetPassword.segs
  /\ ~pendingNav.pending
  /\ \E e \in Emails :
       sessionStorage' = SetItem(sessionStorage, EMAIL_KEY, JStr(e))
  /\ pendingNav' = PendingTo(HrefVerifyOtp.segs)
  /\ UNCHANGED <<route, view, guardPushes, sub, hasWindow, localStorage,
                 accessToken, rf, call>>

\* step 2 of the flow succeeds: verified_otp is written and this view follows
OtpVerified ==
  /\ route = HrefVerifyOtp.segs
  /\ ~pendingNav.pending
  /\ Truthy(GetItem(sessionStorage, EMAIL_KEY))
  /\ \E o \in Otps :
       sessionStorage' = SetItem(sessionStorage, OTP_KEY, JStr(o))
  /\ pendingNav' = PendingTo(ViewRoute)
  /\ UNCHANGED <<route, view, guardPushes, sub, hasWindow, localStorage,
                 accessToken, rf, call>>

NextReset ==
  \/ EntryEffect
  \/ SetNewPassword
  \/ SetConfirmPassword
  \/ \E i \in 1..MaxSubs : Submit(i)
  \/ \E i \in 1..MaxSubs : ResetSettle(i)
  \/ \E i \in 1..MaxSubs : SignInSettle(i)
  \/ BackToOtp
  \/ RouteChange
  \/ Visit
  \/ RequestResetDone
  \/ OtpVerified

SpecReset == InitReset /\ [][NextReset]_vars

(***************************************************************************)
(* ApiClient.request on its own: one call, from the caller's options to    *)
(* what the caller receives                                                *)
(***************************************************************************)
\* the decoded body {message: m, error: e, data: d}; Undef leaves a key out
ObjOf(m, e, d) ==
  LET val(k) == CASE k = "message" -> m [] k = "error" -> e [] OTHER -> d
  IN JObj([k \in {j \in {"message", "error", "data"} : val(j) # Undef} |-> val(k)])

MessageValues ==
  {Undef, JStr("m"), JStr(""), JNum(7), JObj("code" :> JStr("E1"))}
ErrorValues ==
  {Undef, JNull, JStr("e"), JObj("message" :> JStr("em")),
   JObj("message" :> JObj("code" :> JStr("E2"))), JObj("code" :> JStr("E3"))}
DataValues ==
  {Undef, JNull, JStr(""), JNum(0), JStr("d"),
   JObj("data" :> JObj("id" :> JStr("x")))}
    \cup {ObjOf(m, e, Undef) :
            m \in {Undef, JStr("dm")},
            e \in {Undef, JStr("de"), JObj("message" :> JStr("dem"))}}

\* what response.json() may produce
DecodedBodies ==
  {ObjOf(m, e, d) : m \in MessageValues, e \in ErrorValues, d \in DataValues}
    \cup {JNull, JNum(5), JStr("plain"), Undecodable}

\* what fetch() may produce
FetchResults ==
  {NetworkFailure}
    \cup {HttpResponse(200, "OK", b) : b \in DecodedBodies}
    \cup {HttpResponse(400, "Bad Request", b) : b \in DecodedBodies}
    \cup {HttpResponse(500, "", b) : b \in DecodedBodies}

\* the options a caller may pass to request()
CallerOptions ==
  { [method |-> "POST", body |-> EmptyObj],
    [method |-> "POST", body |-> EmptyObj, headers |-> ("X-Trace" :> "1")],
    [method |-> "POST", body |-> EmptyObj,
     headers |-> ("Content-Type" :> "text/plain")] }

InitRequest ==
  /\ hasWindow = TRUE
  /\ localStorage = [k \in {ACCESS_TOKEN_KEY, REFRESH_TOKEN_KEY} |-> JNull]
  /\ accessToken = JNull
  /\ rf = [i \in 1..MaxRefresh |-> IdleRefresh]
  /\ ViewInit
  /\ \E o \in CallerOptions : call = [NoCall EXCEPT !.pc = "ready", !.options = o]

\* request() up to its await of fetch(): the configuration it sends
SendRequest ==
  /\ call.pc = "ready"
  /\ call' = [call EXCEPT !.pc = "sent",
                          !.config = RequestConfig(accessToken, call.options)]
  /\ UNCHANGED <<hasWindow, localStorage, accessToken, rf, sessionStorage,
                 route, pendingNav, view, guardPushes, sub>>

\* request() from the settling of fetch() to its return or throw
SettleRequest ==
  /\ call.pc = "sent"
  /\ \E resp \in FetchResults :
       call' = [call EXCEPT !.pc = "settled", !.resp = resp,
                            !.outcome = Request(resp)]
  /\ UNCHANGED <<hasWindow, localStorage, accessToken, rf, sessionStorage,
                 route, pendingNav, view, guardPushes, sub>>

NextRequest ==
  \/ SetAccessToken
  \/ SendRequest
  \/ SettleRequest

SpecRequest == InitRequest /\ [][NextRequest]_vars

(***************************************************************************)
(* Overlapping refreshAccessToken() calls: every call reads the stored     *)
(* refresh token before any call's request has settled.                    *)
(***************************************************************************)
InitRace ==
  /\ hasWindow = TRUE
  /\ \E pair \in CallerPairs :
       localStorage = setTokens([k \in {ACCESS_TOKEN_KEY, REFRESH_TOKEN_KEY} |-> JNull],
                                TRUE, pair[1], pair[2])
  /\ accessToken \in {JNull, JStr("t0")}
  /\ rf = [i \in 1..MaxRefresh |-> IdleRefresh]
  /\ ViewInit
  /\ call = NoCall

RaceStart(i) ==
  /\ rf[i].pc = "idle"
  /\ \A j \in 1..MaxRefresh : rf[j].outcome = Pending
  /\ RefreshStart(i)

NextRace ==
  \/ \E i \in 1..MaxRefresh : RaceStart(i)
  \/ \E i \in 1..MaxRefresh : RefreshSettle(i)

SpecRace == InitRace /\ [][NextRace]_vars

(***************************************************************************)
(* Properties of the token store (checked under SpecToken).                *)
(***************************************************************************)
\* what a refreshAccessToken() call returned with
RefreshFailed(r) == r.pc = "done" /\ ~r.outcome.ok /\ r.outcome # Pending
RefreshSkipped(r) == r.pc = "done" /\ r.outcome = Pending
RefreshSucceeded(r) == r.pc = "done" /\ r.outcome.ok
IsTokenPair(v) ==
  /\ Get(v, "access_token").t = "string"
  /\ Get(v, "refresh_token").t = "string"

\* C1: in every reachable state the access-token slot and the refresh-token
\* slot are both set or both absent.
C1_PairTogether ==
  (GetItem(localStorage, ACCESS_TOKEN_KEY) = JNull)
    <=> (GetItem(localStorage, REFRESH_TOKEN_KEY) = JNull)

\* C1 witness: a refresh has stored a pair, and both slots are set.
C1_Witness ==
  /\ \E i \in 1..MaxRefresh : RefreshSucceeded(rf[i])
  /\ GetItem(localStorage, ACCESS_TOKEN_KEY) # JNull
  /\ GetItem(localStorage, REFRESH_TOKEN_KEY) # JNull

\* C2: a refresh whose backend call fails returns absent and leaves both
\* slots empty.
C2_FailureClears ==
  [][\A i \in 1..MaxRefresh :
       (rf[i].pc = "await" /\ RefreshFailed(rf'[i]))
         => /\ rf'[i].result = JNull
            /\ GetItem(localStorage', ACCESS_TOKEN_KEY) = JNull
            /\ GetItem(localStorage', REFRESH_TOKEN_KEY) = JNull]_tokenVars

\* C2 witness: a refresh that sent its request has failed, after a pair had
\* been stored by a call that is still recorded as succeeded.
C2_Witness ==
  \E i, j \in 1..MaxRefresh :
    /\ RefreshFailed(rf[i])
    /\ RefreshSucceeded(rf[j])
    /\ GetItem(localStorage, REFRESH_TOKEN_KEY) = JNull

\* C3: a refresh started while no refresh token is stored returns absent,
\* sends no request and leaves the store unchanged.
C3_NoTokenNoCall ==
  [][\A i \in 1..MaxRefresh :
       (/\ rf[i].pc # "await"
        /\ rf'[i] # rf[i]
        /\ getRefreshToken(localStorage, hasWindow) = JNull)
         => /\ RefreshSkipped(rf'[i])
            /\ rf'[i].request = NoRequest
            /\ rf'[i].result = JNull
            /\ localStorage' = localStorage]_tokenVars

\* C3 witness: a refresh has returned early in a storage-capable context
\* whose refresh-token slot is absent.
C3_Witness ==
  /\ hasWindow
  /\ GetItem(localStorage, REFRESH_TOKEN_KEY) = JNull
  /\ \E i \in 1..MaxRefresh : RefreshSkipped(rf[i])

\* C4: the refresh request carries the stored refresh token, and when the
\* call succeeds with a pair, both slots hold that pair and the call returns
\* its access token.
C4_SuccessReplaces ==
  [][\A i \in 1..MaxRefresh :
       /\ (rf[i].pc # "await" /\ rf'[i].pc = "await")
            => rf'[i].request.body
                 = JObj("refresh_token" :> GetItem(localStorage, REFRESH_TOKEN_KEY))
       /\ (rf[i].pc = "await" /\ RefreshSucceeded(rf'[i])
             /\ IsTokenPair(rf'[i].outcome.value))
            => /\ GetItem(localStorage', ACCESS_TOKEN_KEY)
                    = Get(rf'[i].outcome.value, "access_token")
               /\ GetItem(localStorage', REFRESH_TOKEN_KEY)
                    = Get(rf'[i].outcome.value, "refresh_token")
               /\ rf'[i].result = Get(rf'[i].outcome.value, "access_token")]_tokenVars

\* C4 witness: a refresh has succeeded with the enveloped pair and the store
\* holds it.
C4_Witness ==
  \E i \in 1..MaxRefresh :
    /\ RefreshSucceeded(rf[i])
    /\ rf[i].result = JStr("a2")
    /\ GetItem(localStorage, ACCESS_TOKEN_KEY) = JStr("a2")
    /\ GetItem(localStorage, REFRESH_TOKEN_KEY) = JStr("r2")

(***************************************************************************)
(* Properties of the confirm-reset step (checked under SpecReset).         *)
(***************************************************************************)
\* the steps of a submission, as changes of its position
SubmitStep(i) == sub[i].pc = "idle" /\ sub'[i].pc # "idle"
ResetFailStep(i) == sub[i].pc = "awaitReset" /\ sub'[i].pc = "done"
ResetSuccessStep(i) == sub[i].pc = "awaitReset" /\ sub'[i].pc = "awaitSignIn"
SignInStep(i) == sub[i].pc = "awaitSignIn" /\ sub'[i].pc = "done"

\* how a returned submission ended
HttpFailed(r) == r.pc = "done" /\ r.outcome # Pending /\ r.outcome.error.hasResponse
NetworkFailed(r) ==
  r.pc = "done" /\ r.outcome # Pending /\ ~r.outcome.ok
    /\ ~r.outcome.error.hasResponse

\* C5: a submission sends the confirm-reset request exactly when the five
\* local checks hold at submission time, and then with the body
\* {email, otp_code: verified_otp, new_password}; otherwise it sends nothing.
C5_CallOnlyAfterChecks ==
  [][\A i \in 1..MaxSubs :
       SubmitStep(i) =>
         LET otp == GetItem(sessionStorage, OTP_KEY)
             allHold == /\ view.email # ""
                        /\ view.newPassword # "" /\ view.confirmPassword # ""
                        /\ view.newPassword = view.confirmPassword
                        /\ Len(view.newPassword) >= 6
                        /\ otp # JNull
         IN /\ (sub'[i].pc = "awaitReset") <=> allHold
            /\ allHold =>
                 /\ sub'[i].request.body =
                      JObj(("email" :> JStr(view.email))
                           @@ ("otp_code" :> otp)
                           @@ ("new_password" :> JStr(view.newPassword)))
                 /\ GetItem(sessionStorage, EMAIL_KEY) = JStr(view.email)
            /\ ~allHold => sub'[i].pc = "done" /\ sub'[i].request = NoRequest]_vars

\* C5 witness: one submission was stopped by a local check and sent nothing,
\* another passed the checks and its request is in flight.
C5_Witness ==
  \E i, j \in 1..MaxSubs :
    /\ sub[i].pc = "done" /\ sub[i].request = NoRequest
    /\ sub[i].toasts = <<ToastTooShort>>
    /\ sub[j].pc = "awaitReset"
    /\ Get(sub[j].request.body, "new_password") = JStr("abcdef")

\* C6: the success of the confirm-reset call clears both fields of the flow
\* state, and no outcome of the auto-login that follows writes them again.
C6_SuccessClearsAll ==
  [][\A i \in 1..MaxSubs :
       /\ ResetSuccessStep(i) =>
            /\ GetItem(sessionStorage', EMAIL_KEY) = JNull
            /\ GetItem(sessionStorage', OTP_KEY) = JNull
       /\ SignInStep(i) => sessionStorage' = sessionStorage]_vars

\* C6 witness: a reset succeeded, its auto-login raised an error, and both
\* fields are absent.
C6_Witness ==
  \E i \in 1..MaxSubs :
    /\ sub[i].pc = "done" /\ sub[i].outcome.ok /\ sub[i].signIn = "throws"
    /\ GetItem(sessionStorage, EMAIL_KEY) = JNull
    /\ GetItem(sessionStorage, OTP_KEY) = JNull

C8_NetworkFailureKeepsFlowState ==
  [][\A i \in 1..MaxSubs :
       (ResetFailStep(i) /\ NetworkFailed(sub'[i]))
         => sessionStorage' = sessionStorage]_vars

\* C9: after a successful reset the submission pushes the landing page when
\* signIn reports success and the same login page when it reports failure
\* or raises an error, and shows no failure toast.
C9_AutoLoginFailureToLogin ==
  \A i \in 1..MaxSubs :
    (sub[i].pc = "done" /\ sub[i].outcome.ok) =>
      /\ sub[i].signIn = "ok" => sub[i].pushes = <<HrefHome.segs>>
      /\ sub[i].signIn \in {"failed", "throws"}
           => sub[i].pushes = <<HrefLogin.segs>>
      /\ \A k \in 1..Len(sub[i].toasts) : sub[i].toasts[k].variant # "destructive"

\* C10: the entry effect pushes the request-reset page alone when email is
\* absent, the OTP page alone when only verified_otp is absent, and nothing
\* when both are present.
C10_GuardEarliestOnly ==
  [][(view.phase = "initial" /\ view'.phase = "ready") =>
       guardPushes' =
         IF GetItem(sessionStorage, EMAIL_KEY) = JNull
           THEN <<HrefResetPassword.segs>>
           ELSE IF GetItem(sessionStorage, OTP_KEY) = JNull
             THEN <<HrefVerifyOtp.segs>>
             ELSE <<>>]_vars

\* C11: a submission that finds email absent shows the flow-must-restart
\* toast, pushes the request-reset page and sends no request.
C11_MissingEmailRedirects ==
  [][\A i \in 1..MaxSubs :
       (SubmitStep(i) /\ view.email = "") =>
         /\ sub'[i].toasts = <<ToastEmailMissing>>
         /\ sub'[i].pushes = <<HrefResetPassword.segs>>
         /\ sub'[i].request = NoRequest]_vars

(***************************************************************************)
(* Properties of request() (checked under SpecRequest).                    *)
(***************************************************************************)
\* the call has settled on an HTTP failure response / an HTTP success response
HttpFailure(c) == c.pc = "settled" /\ c.resp.net = "ok" /\ ~ResponseOk(c.resp)
HttpSuccess(c) == c.pc = "settled" /\ c.resp.net = "ok" /\ ResponseOk(c.resp)

\* C12: for every HTTP failure response, whatever its body decodes to,
\* request() throws an error with a non-empty message that carries the HTTP
\* status and the decoded body (an empty object for an undecodable body).
C12_FailureIsCanonical ==
  HttpFailure(call) =>
    /\ ~call.outcome.ok
    /\ call.outcome.error.message # ""
    /\ call.outcome.error.hasResponse
    /\ call.outcome.error.status = call.resp.status
    /\ call.outcome.error.data =
         IF call.resp.body = Undecodable THEN EmptyObj ELSE call.resp.body

\* the fallback chain as the claim words it: the first of b.message,
\* b.error.message and b.error that is a non-empty string, or Undef
UsableString(v) == v.t = "string" /\ v.s # ""
ChainSteps(b) ==
  IF UsableString(Get(b, "message")) THEN Get(b, "message")
  ELSE IF UsableString(OptGet(Get(b, "error"), "message"))
    THEN OptGet(Get(b, "error"), "message")
  ELSE IF UsableString(Get(b, "error")) THEN Get(b, "error")
  ELSE Undef
ChainMessage(b, resp) ==
  LET outer == ChainSteps(b)
      inner == IF Get(b, "data").t = "object"
                 THEN ChainSteps(Get(b, "data")) ELSE Undef
  IN IF inner # Undef THEN inner.s
     ELSE IF outer # Undef THEN outer.s
     ELSE StatusPhrase(resp)

\* C13: the message of the error thrown for an HTTP failure is the result of
\* the ordered fallback chain over the decoded body.
C13_MessageIsChain ==
  (HttpFailure(call) /\ call.outcome.error.hasResponse) =>
    call.outcome.error.message
      = ChainMessage(call.outcome.error.data, call.resp)

\* C14: for every HTTP success response whose body decodes, the caller
\* receives body.data when the body has a data property, whatever its value,
\* and the body itself otherwise.
C14_UnwrapsDataProperty ==
  (HttpSuccess(call) /\ call.resp.body # Undecodable /\ ~PropThrows(call.resp.body))
    => call.outcome =
         Resolved(IF call.resp.body.t = "object" /\ "data" \in DOMAIN call.resp.body.f
                    THEN call.resp.body.f["data"]
                    ELSE call.resp.body)

\* C15: a request sent while an access token is held carries Authorization:
\* Bearer <token>, and every request carries Content-Type: application/json
\* unless the caller's headers set Content-Type themselves.
C15_HeadersAttached ==
  [][(call.pc = "ready" /\ call'.pc = "sent") =>
       LET h == call'.config.headers
           callerSets == /\ "headers" \in DOMAIN call.options
                         /\ "Content-Type" \in DOMAIN call.options.headers
       IN /\ Truthy(accessToken) =>
               /\ "Authorization" \in DOMAIN h
               /\ h["Authorization"] = "Bearer " \o accessToken.s
          /\ ~callerSets =>
               /\ "Content-Type" \in DOMAIN h
               /\ h["Content-Type"] = "application/json"]_vars

(***************************************************************************)
(* Properties of overlapping refreshes (checked under SpecRace).           *)
(***************************************************************************)
StoreHolds(pair) ==
  /\ GetItem(localStorage, ACCESS_TOKEN_KEY) = Get(pair, "access_token")
  /\ GetItem(localStorage, REFRESH_TOKEN_KEY) = Get(pair, "refresh_token")
SucceededWithPair(r) == RefreshSucceeded(r) /\ IsTokenPair(r.outcome.value)

\* C16: once all overlapping refresh calls have settled, if one of them
\* succeeded with a complete pair, the store holds the complete pair of a
\* call that succeeded.
C16_RaceSafe ==
  (/\ \A i \in 1..MaxRefresh : rf[i].pc = "done"
   /\ \E i \in 1..MaxRefresh : SucceededWithPair(rf[i]))
    => \E i \in 1..MaxRefresh :
         SucceededWithPair(rf[i]) /\ StoreHolds(rf[i].outcome.value)

(***************************************************************************)
(* Further properties of the confirm-reset view (checked under SpecReset). *)
(***************************************************************************)
\* C17: a submission is decided by the first check that fails, in the order
\* email, non-empty passwords, match, length >= 6, verified_otp: that check's
\* toast alone is shown, only the verified_otp check pushes (the OTP page),
\* and the request is sent only when all five pass.
C17_FirstFailingCheckDecides ==
  [][\A i \in 1..MaxSubs :
       SubmitStep(i) =>
         LET noEmail == view.email = ""
             blank == view.newPassword = "" \/ view.confirmPassword = ""
             differ == view.newPassword # view.confirmPassword
             short == Len(view.newPassword) < 6
             noOtp == GetItem(sessionStorage, OTP_KEY) = JNull
             r == sub'[i]
         IN /\ noEmail => r.toasts = <<ToastEmailMissing>>
            /\ (~noEmail /\ blank)
                 => r.toasts = <<ToastPasswordRequired>> /\ r.pushes = <<>>
            /\ (~noEmail /\ ~blank /\ differ)
                 => r.toasts = <<ToastMismatch>> /\ r.pushes = <<>>
            /\ (~noEmail /\ ~blank /\ ~differ /\ short)
                 => r.toasts = <<ToastTooShort>> /\ r.pushes = <<>>
            /\ (~noEmail /\ ~blank /\ ~differ /\ ~short /\ noOtp)
                 => r.toasts = <<ToastOtpMissing>> /\ r.pushes = <<HrefVerifyOtp.segs>>
            /\ (noEmail \/ blank \/ differ \/ short \/ noOtp)
                 <=> (r.pc = "done" /\ r.request = NoRequest)]_vars

\* C17 witness: with email present and verified_otp absent, one submission
\* was stopped by the mismatch check without a push and a later one, with
\* matching passwords of length 6, was sent to the OTP page.
C17_Witness ==
  /\ view.email # ""
  /\ GetItem(sessionStorage, OTP_KEY) = JNull
  /\ sub[1].pc = "done" /\ sub[1].toasts = <<ToastMismatch>> /\ sub[1].pushes = <<>>
  /\ sub[2].pc = "done" /\ sub[2].toasts = <<ToastOtpMissing>>
  /\ sub[2].pushes = <<HrefVerifyOtp.segs>>
  /\ view.newPassword = "abcdef" /\ view.confirmPassword = "abcdef"

\* C18: in no reachable state is the password form rendered by an instance
\* whose entry guard found email or verified_otp absent.
C18_GuardBeforeForm ==
  FormRendered(view) => guardPushes = <<>>

\* C19: the failure of a confirm-reset call removes verified_otp; no step of a
\* submission writes it back; and a submission that starts while it is absent
\* sends no request and, its other checks passing, pushes the OTP page.
C19_RejectedOtpNotReusable ==
  [][\A i \in 1..MaxSubs :
       /\ ResetFailStep(i) => GetItem(sessionStorage', OTP_KEY) = JNull
       /\ (GetItem(sessionStorage, OTP_KEY) = JNull
             /\ GetItem(sessionStorage', OTP_KEY) # JNull) => sub' = sub
       /\ (SubmitStep(i) /\ GetItem(sessionStorage, OTP_KEY) = JNull)
            => /\ sub'[i].request = NoRequest
               /\ sub'[i].pc = "done"
               /\ (/\ view.email # ""
                   /\ view.newPassword = view.confirmPassword
                   /\ Len(view.newPassword) >= 6)
                    => sub'[i].pushes = <<HrefVerifyOtp.segs>>]_vars

\* C19 witness: the first submission's call failed, and the second, started
\* with the same passwords, sent nothing and pushed the OTP page.
C19_Witness ==
  /\ sub[1].pc = "done" /\ sub[1].outcome # Pending /\ ~sub[1].outcome.ok
  /\ sub[2].pc = "done" /\ sub[2].request = NoRequest
  /\ sub[2].toasts = <<ToastOtpMissing>>
  /\ sub[2].pushes = <<HrefVerifyOtp.segs>>
  /\ GetItem(sessionStorage, OTP_KEY) = JNull

\* C20: every submission that returned on a failure path (a local check, a
\* failed call, a failed or throwing signIn) showed exactly one toast and
\* pushed at most one page.
C20_OneNotificationPerFailure ==
  \A i \in 1..MaxSubs :
    (sub[i].pc = "done" /\ sub[i].signIn # "ok")
      => Len(sub[i].toasts) = 1 /\ Len(sub[i].pushes) <= 1

\* C21: a submission sends its request only after all five checks hold, and
\* the sending step writes no storage and pushes nothing; a submission that
\* has passed the checks pushes only after its call has settled; and every
\* removal from the flow state happens at the step at which a submission's
\* call settles.
C21_EffectsAfterSettle ==
  [][\A i \in 1..MaxSubs :
       /\ (SubmitStep(i) /\ sub'[i].pc = "awaitReset")
            => /\ view.email # ""
               /\ view.newPassword # "" /\ view.newPassword = view.confirmPassword
               /\ Len(view.newPassword) >= 6
               /\ GetItem(sessionStorage, OTP_KEY) # JNull
               /\ sessionStorage' = sessionStorage
               /\ pendingNav' = pendingNav /\ route' = route
               /\ sub'[i].pushes = <<>>
       /\ (sub[i].pc # "idle" /\ sub'[i].pushes # sub[i].pushes)
            => sub[i].pc = "awaitSignIn" /\ sub[i].outcome # Pending
       /\ sub[i].pc = "awaitReset"
            => (\A k \in {EMAIL_KEY, OTP_KEY} :
                  GetItem(sessionStorage, k) # JNull
                    => \/ GetItem(sessionStorage', k) # JNull
                       \/ \E j \in 1..MaxSubs :
                            sub[j].pc = "awaitReset" /\ sub'[j].outcome # Pending)]_vars

\* C21 witness: a request is in flight, both fields of the flow state are
\* still stored, the page is still the view's and no route change is pending.
C21_Witness ==
  \E i \in 1..MaxSubs :
    /\ sub[i].pc = "awaitReset" /\ sub[i].pushes = <<>>
    /\ GetItem(sessionStorage, EMAIL_KEY) # JNull
    /\ GetItem(sessionStorage, OTP_KEY) # JNull
    /\ route = ViewRoute /\ ~pendingNav.pending

\* the request a submission would send from the present inputs
PresentRequest ==
  RequestConfig(accessToken,
    VerifyResetPasswordOptions(
      JObj(("email" :> JStr(view.email))
           @@ ("otp_code" :> GetItem(sessionStorage, OTP_KEY))
           @@ ("new_password" :> JStr(view.newPassword)))))
\* submission j has sent the same request as submission i
Twin(i, j) ==
  i # j /\ sub[i].request # NoRequest /\ sub[j].request = sub[i].request

\* C22: a submission identical to one still pending passes its own checks and
\* sends its own request; when either of two identical submissions settles,
\* the other's record is untouched and the flow state is the one the settling
\* submission writes (both fields absent after a success; verified_otp absent
\* and email as it was after a failure), so that email and verified_otp are
\* always in a combination one submission alone produces.
C22_LastWriteWins ==
  [][\A i, j \in 1..MaxSubs :
       /\ (/\ SubmitStep(i) /\ sub[j].pc = "awaitReset"
           /\ view.newPassword = view.confirmPassword
           /\ sub[j].request = PresentRequest)
            => sub'[i].pc = "awaitReset" /\ sub'[i].request = sub[j].request
       /\ (Twin(i, j) /\ sub[i].pc = "awaitReset" /\ sub'[i].pc # "awaitReset")
            => /\ sub'[j] = sub[j]
               /\ GetItem(sessionStorage', OTP_KEY) = JNull
               /\ GetItem(sessionStorage', EMAIL_KEY) =
                    IF sub'[i].outcome.ok
                      THEN JNull
                      ELSE GetItem(sessionStorage, EMAIL_KEY)
               /\ GetItem(sessionStorage', EMAIL_KEY)
                    \in {JNull, Get(sub[i].request.body, "email")}]_vars

\* C22 witness: two identical submissions overlapped (the first has not been
\* orphaned and is awaiting its auto-login), one call succeeded and the other
\* failed, and both fields of the flow state are absent.
C22_Witness ==
  /\ sub[1].pc = "awaitSignIn" /\ ~sub[1].stale
  /\ sub[2].pc = "done" /\ sub[2].outcome # Pending /\ ~sub[2].outcome.ok
  /\ sub[2].request = sub[1].request
  /\ GetItem(sessionStorage, EMAIL_KEY) = JNull
  /\ GetItem(sessionStorage, OTP_KEY) = JNull

(***************************************************************************)
(* The token held by the client and the token store (under SpecToken).     *)
(***************************************************************************)
\* C23: no step that writes the token store or moves a refresh changes the
\* token held by the client; sending a request writes nothing to the store;
\* and the request a refresh sends carries Authorization: Bearer <held token>
\* when a token is held and no Authorization header otherwise, whatever the
\* store holds.
C23_HeldTokenOnlyBySetter ==
  [][/\ (localStorage' # localStorage \/ rf' # rf) => accessToken' = accessToken
     /\ \A i \in 1..MaxRefresh :
          (rf[i].pc # "await" /\ rf'[i].pc = "await")
            => /\ localStorage' = localStorage
               /\ LET h == rf'[i].request.headers
                  IN IF accessToken = JNull
                       THEN "Authorization" \notin DOMAIN h
                       ELSE /\ "Authorization" \in DOMAIN h
                            /\ h["Authorization"] = "Bearer " \o accessToken.s]_tokenVars

\* C23 witness: a refresh has stored the pair (a1, r1), the client still
\* holds t0, and the request of a later refresh, which carries r1, has the
\* header Authorization: Bearer t0.
C23_Witness ==
  /\ accessToken = JStr("t0")
  /\ GetItem(localStorage, ACCESS_TOKEN_KEY) = JStr("a1")
  /\ \E i \in 1..MaxRefresh :
       /\ rf[i].pc = "await"
       /\ rf[i].request.body = JObj("refresh_token" :> JStr("r1"))
       /\ "Authorization" \in DOMAIN rf[i].request.headers
       /\ rf[i].request.headers["Authorization"] = "Bearer t0"

====
